---- MODULE Spec2Model ----
(***************************************************************************)
(* A model of paths2openscad.py (class OpenSCAD): extraction of SVG shapes *)
(* into polylines, curve flattening, containment classification, and the   *)
(* emission of OpenSCAD modules.                                           *)
(*                                                                         *)
(* Conventions.                                                            *)
(*  - A number is <<n, d>>, the fraction n / d in lowest terms, d a power  *)
(*    of two: the values binary floating point holds.  Arithmetic on them  *)
(*    is exact, where the code's rounds to 53 bits.  Whole(v) is the       *)
(*    integer v.                                                           *)
(*  - A point is <<x, y>>, two numbers.                                    *)
(*  - Python lists are sequences: Python index n is index n+1 here.        *)
(*  - A bounding box is <<xmin, xmax, ymin, ymax>>.                        *)
(*  - A node of a cubic superpath is <<handle_in, point, handle_out>>      *)
(*    (Python sp[n][0], sp[n][1], sp[n][2]).                               *)
(*  - Strings that the code edits (element ids, module names) are          *)
(*    sequences of one-character strings.                                  *)
(*  - inkex (path parsing, bezier.maxdist, bezier.beziersplitatt) is a     *)
(*    library outside the repository: a path's d attribute is given        *)
(*    already parsed to its superpath, and the two bezier functions are    *)
(*    modelled by what they compute.                                       *)
(***************************************************************************)
EXTENDS Integers, Sequences, FiniteSets, TLC

VARIABLES
    mode,          \* "document" (options.ids empty) or "ids"
    height,        \* options.height
    flat,          \* options.smoothness, the flattening tolerance
    pc,            \* position in effect()
    visits,        \* history: the process_element calls on shapes so far
    paths,         \* self.paths, in insertion order: <<[node, subs]>>
    xmin, xmax, ymin, ymax,   \* the running global bounding box
    cx, cy,        \* the drawing center
    pathid,        \* the counter of generated names
    call_list,     \* self.call_list
    out,           \* what has been written to self.f, statement by statement
    emit_idx,      \* the position of the "for key in self.paths" loop
    contains,      \* convert_path's local contains, of its latest call
    contained_by,  \* convert_path's local contained_by, of its latest call
    sp,            \* subdivide_cubic_path: the superpath being subdivided
    si,            \* subdivide_cubic_path: the loop index i (1-based: i + 1)
    fpc            \* subdivide_cubic_path: position

vars == <<mode, height, flat, pc, visits, paths, xmin, xmax, ymin, ymax, cx, cy,
          pathid, call_list, out, emit_idx, contains, contained_by, sp, si, fpc>>

mainVars == <<mode, height, pc, visits, paths, xmin, xmax, ymin, ymax, cx, cy,
              pathid, call_list, out, emit_idx, contains, contained_by>>

flatVars == <<sp, si, fpc>>

(***************************************************************************)
(* Bounds of the model.                                                    *)
(***************************************************************************)
MaxVisits == 3
MaxSegs == 2

(***************************************************************************)
(* Program constants.                                                      *)
(***************************************************************************)
\* __init__: xmin = 1.0E70 and xmax = -1.0E70; any value beyond every
\* coordinate behaves the same under min and max.
Huge == 1000000
\* __init__: self.cx = self.cy = float(100) / 2.0
DefaultCenter == 50

Abs(a) == IF a < 0 THEN -a ELSE a
Last(s) == s[Len(s)]

(***************************************************************************)
(* Numbers: Python's float arithmetic, exact.                              *)
(***************************************************************************)
Whole(v) == <<v, 1>>

\* The operations on numbers are functions: a function is applied to the
\* values of its arguments, each computed once.
Number == Int \X Nat

\* n / d in lowest terms, for d a power of two.
Reduce[n \in Int, d \in Nat] ==
    IF d > 1 /\ n % 2 = 0 THEN Reduce[n \div 2, d \div 2] ELSE <<n, d>>

\* a + b, a - b, a * b, a / 2.0 (whole numbers apart, for speed)
Plus[a \in Number, b \in Number] ==
    IF a[2] = 1 /\ b[2] = 1 THEN <<a[1] + b[1], 1>>
    ELSE LET d == IF a[2] > b[2] THEN a[2] ELSE b[2]
         IN  Reduce[a[1] * (d \div a[2]) + b[1] * (d \div b[2]), d]
Minus[a \in Number, b \in Number] == Plus[a, <<-b[1], b[2]>>]
Times[a \in Number, b \in Number] ==
    IF a[2] = 1 /\ b[2] = 1 THEN <<a[1] * b[1], 1>>
    ELSE Reduce[a[1] * b[1], a[2] * b[2]]
Half[a \in Number] == Reduce[a[1], 2 * a[2]]

\* a < b, a <= b
Less(a, b) ==
    IF a[2] = b[2] THEN a[1] < b[1] ELSE Minus[a, b][1] < 0
LessEq(a, b) ==
    IF a[2] = b[2] THEN a[1] <= b[1] ELSE Minus[a, b][1] <= 0

Min(a, b) == IF Less(b, a) THEN b ELSE a
Max(a, b) == IF Less(a, b) THEN b ELSE a

\* Natural numbers of any size, as their digits to base 10000, the lowest
\* first and the highest not 0; used where a product of coordinates is
\* compared with another.
Base == 10000
Digits == Seq(0..(Base - 1))

Big[n \in Nat] == IF n = 0 THEN <<>> ELSE <<n % Base>> \o Big[n \div Base]

BigSum[a \in Digits, b \in Digits, carry \in Nat] ==
    IF a = <<>> /\ b = <<>> THEN (IF carry = 0 THEN <<>> ELSE <<carry>>)
    ELSE LET v == (IF a = <<>> THEN 0 ELSE a[1]) + (IF b = <<>> THEN 0 ELSE b[1]) + carry
         IN  <<v % Base>> \o BigSum[IF a = <<>> THEN a ELSE Tail(a),
                                    IF b = <<>> THEN b ELSE Tail(b), v \div Base]

\* a * digit + carry, for a not 0 and digit not 0.
BigByDigit[a \in Digits, digit \in Nat, carry \in Nat] ==
    IF a = <<>> THEN (IF carry = 0 THEN <<>> ELSE <<carry>>)
    ELSE LET v == a[1] * digit + carry
         IN  <<v % Base>> \o BigByDigit[Tail(a), digit, v \div Base]

\* a * Base
BigShift[a \in Digits] == IF a = <<>> THEN <<>> ELSE <<0>> \o a

BigProduct[a \in Digits, b \in Digits] ==
    IF a = <<>> \/ b = <<>> THEN <<>>
    ELSE IF b[1] = 0 THEN BigShift[BigProduct[a, Tail(b)]]
    ELSE BigSum[BigByDigit[a, b[1], 0], BigShift[BigProduct[a, Tail(b)]], 0]

BigLess[a \in Digits, b \in Digits] ==
    IF Len(a) # Len(b) THEN Len(a) < Len(b)
    ELSE IF a = <<>> THEN FALSE
    ELSE IF Last(a) # Last(b) THEN Last(a) < Last(b)
    ELSE BigLess[SubSeq(a, 1, Len(a) - 1), SubSeq(b, 1, Len(b) - 1)]

\* The product of the natural numbers of xs.
ProductOf[xs \in Seq(Nat)] ==
    IF xs = <<>> THEN <<1>> ELSE BigProduct[Big[xs[1]], ProductOf[Tail(xs)]]

\* A ratio of two such products, f.num / f.den, with f.den not 0.
Ratios == [num : Seq(Nat), den : Seq(Nat)]
RatioLess[f \in Ratios, g \in Ratios] ==
    IF \E m \in 1..Len(g.num) : g.num[m] = 0 THEN FALSE
    ELSE BigLess[ProductOf[f.num \o g.den], ProductOf[g.num \o f.den]]

(***************************************************************************)
(* Bounding boxes and containment tests.                                   *)
(***************************************************************************)
point_in_bbox(pt, bbox) ==
    ~(Less(pt[1], bbox[1]) \/ Less(bbox[2], pt[1]) \/
      Less(pt[2], bbox[3]) \/ Less(bbox[4], pt[2]))

bbox_in_bbox(bbox1, bbox2) ==
    ~(Less(bbox1[1], bbox2[1]) \/ Less(bbox2[2], bbox1[2]) \/
      Less(bbox1[3], bbox2[3]) \/ Less(bbox2[4], bbox1[4]))

\* The edge test of the ray casting loop for edge (poly[j], poly[i]):
\*   (yi > y) != (yj > y) and x < (xj - xi) * (y - yi) / (yj - yi) + xi
\* with the division cleared exactly (yj - yi is not 0 when the first
\* conjunct holds).
EdgeCrossed(p, pi, pj) ==
    /\ Less(p[2], pi[2]) # Less(p[2], pj[2])
    /\ LET num == Times[Minus[pj[1], pi[1]], Minus[p[2], pi[2]]]
           den == Minus[pj[2], pi[2]]
           lhs == Times[Minus[p[1], pi[1]], den]
       IN  IF den[1] > 0 THEN Less(lhs, num) ELSE Less(num, lhs)

\* The ray casting loop: inside flips once per crossed edge.
RayCast(p, poly) ==
    LET n == Len(poly)
        prev(m) == IF m = 1 THEN n ELSE m - 1
        crossed == {m \in 1..n : EdgeCrossed(p, poly[m], poly[prev(m)])}
    IN  Cardinality(crossed) % 2 = 1

point_in_poly(p, poly, bbox) ==
    IF ~point_in_bbox(p, bbox) THEN FALSE
    ELSE IF \E m \in 1..Len(poly) : poly[m] = p THEN TRUE
    ELSE RayCast(p, poly)

\* "Check if poly2 contains poly1."
poly_in_poly(poly1, bbox1, poly2, bbox2) ==
    IF ~bbox_in_bbox(bbox1, bbox2) THEN FALSE
    ELSE \A m \in 1..Len(poly1) : point_in_poly(poly1[m], poly2, bbox2)

(***************************************************************************)
(* Curve flattening: bezier.maxdist, bezier.beziersplitatt(b, 0.5) and     *)
(* subdivide_cubic_path.                                                   *)
(***************************************************************************)
Point == Number \X Number
Dot(a, b) == Plus[Times[a[1], b[1]], Times[a[2], b[2]]]
Sub(a, b) == <<Minus[a[1], b[1]], Minus[a[2], b[2]]>>
\* a + 0.5 * (b - a)
Mid(a, b) == <<Half[Plus[a[1], b[1]]], Half[Plus[a[2], b[2]]]>>

\* Number a (not negative) as a ratio.
Ratio(a) == [num |-> <<a[1]>>, den |-> <<a[2]>>]

\* The squared distance of p from the segment p0-p3, as a ratio: that to
\* p0 when p projects before p0, to p3 when it projects past p3, else the
\* perpendicular one, cross^2 / |p3 - p0|^2; 0 for an end of the segment.
Dist2[p0 \in Point, p3 \in Point, p \in Point] ==
    LET s == Sub(p3, p0)
        q == Sub(p, p0)
        r == Sub(p, p3)
        cross == Minus[Times[s[1], q[2]], Times[s[2], q[1]]]
        len2 == Dot(s, s)
    IN  IF p = p0 \/ p = p3 THEN Ratio(Whole(0))
        ELSE IF LessEq(Dot(s, q), Whole(0)) THEN Ratio(Dot(q, q))
        ELSE IF LessEq(len2, Dot(s, q)) THEN Ratio(Dot(r, r))
        ELSE [num |-> <<Abs(cross[1]), Abs(cross[1]), len2[2]>>,
              den |-> <<cross[2], cross[2], len2[1]>>]

\* distance(p, segment p0-p3) > tol, on squares.
FartherThan(p0, p3, p, tol) ==
    IF tol[1] < 0 THEN TRUE
    ELSE RatioLess[[num |-> <<tol[1], tol[1]>>, den |-> <<tol[2], tol[2]>>], Dist2[p0, p3, p]]

\* bezier.maxdist(b) > tol, for b = <<p0, p1, p2, p3>>.
MaxDistExceeds(b, tol) ==
    FartherThan(b[1], b[4], b[2], tol) \/ FartherThan(b[1], b[4], b[3], tol)

\* bezier.beziersplitatt(b, 0.5): <<one, two>>.
BezierSplit(b) ==
    LET m1 == Mid(b[1], b[2])
        m2 == Mid(b[2], b[3])
        m3 == Mid(b[3], b[4])
        m4 == Mid(m1, m2)
        m5 == Mid(m2, m3)
        m  == Mid(m4, m5)
    IN  <<  <<b[1], m1, m4, m>>, <<m, m5, m3, b[4]>>  >>

\* b = (sp[i-1][1], sp[i-1][2], sp[i][0], sp[i][1]); n is Python's i + 1.
Segment(s, n) == <<s[n - 1][2], s[n - 1][3], s[n][1], s[n][2]>>

\* A variant of SplitNeeded: the splitting loop tests against twice the
\* tolerance that the re-scan tests against.
SplitNeededLoose(s, n, tol) == MaxDistExceeds(Segment(s, n), Times[Whole(2), tol])

\* Line 163: the test of the splitting loop.
SplitNeeded(s, n, tol) == MaxDistExceeds(Segment(s, n), tol)

\* Lines 164-168: split segment n in place and insert the new node.
SplitAt(s, n) ==
    LET halves == BezierSplit(Segment(s, n))
        one == halves[1]
        two == halves[2]
        left == [s[n - 1] EXCEPT ![3] = one[2]]
        right == [s[n] EXCEPT ![1] = two[3]]
        node == <<one[3], one[4], two[2]>>
    IN  SubSeq(s, 1, n - 2) \o <<left, node, right>> \o SubSeq(s, n + 1, Len(s))

\* Lines 173-181: the re-scan after the splitting loop.
NeedsSubdivision(s, tol) ==
    \E n \in 2..Len(s) : MaxDistExceeds(Segment(s, n), tol)

RECURSIVE SplitLoop(_, _, _)
SplitLoop(s, n, tol) ==
    IF n > Len(s) THEN s
    ELSE IF SplitNeeded(s, n, tol) THEN SplitLoop(SplitAt(s, n), n, tol)
    ELSE SplitLoop(s, n + 1, tol)

\* subdivide_cubic_path(sp, flat), run to its end: the value of sp.
RECURSIVE Subdivided(_, _)

\* Lines 172-184: t is sp after the splitting loop; start over when the
\* re-scan finds a segment to split.
Rescanned(t, tol) ==
    IF NeedsSubdivision(t, tol) THEN Subdivided(t, tol) ELSE t

Subdivided(s, tol) == Rescanned(SplitLoop(s, 2, tol), tol)

(***************************************************************************)
(* The document: SVG elements and their attributes.                        *)
(*                                                                         *)
(* An attribute read by float(node.get(name, 0)) is Num(v) (the text of    *)
(* integer v), Missing (the default 0 is used) or Unparsable (float()      *)
(* raises ValueError).  Path data is Data(superpath) (as inkex parses it), *)
(* NoData (absent or empty) or BadData (the parser raises).                *)
(***************************************************************************)
Num(v) == [k |-> "num", v |-> Whole(v)]
Missing == [k |-> "missing", v |-> Whole(0)]
Unparsable == [k |-> "bad", v |-> Whole(0)]

Data(superpath) == [k |-> "ok", subs |-> superpath]
NoData == [k |-> "missing", subs |-> <<>>]
BadData == [k |-> "bad", subs |-> <<>>]

\* The points, and the nodes of a superpath, of whole coordinates.
Pts(ps) == [m \in 1..Len(ps) |-> <<Whole(ps[m][1]), Whole(ps[m][2])>>]
Knots(ns) == [m \in 1..Len(ns) |-> Pts(ns[m])]

\* A straight-line subpath through pts: every handle lies on its node.
Line(pts) == [m \in 1..Len(pts) |-> <<pts[m], pts[m], pts[m]>>]
\* The same with the closing node that 'Z' (or a repeated first point) adds.
Closed(pts) == Line(Append(pts, pts[1]))

SqOuter == Pts(<< <<0, 0>>, <<20, 0>>, <<20, 20>>, <<0, 20>> >>)
SqInner == Pts(<< <<4, 4>>, <<12, 4>>, <<12, 12>>, <<4, 12>> >>)
SqCore == Pts(<< <<6, 6>>, <<10, 6>>, <<10, 10>>, <<6, 10>> >>)
\* A U: arms x in 30..36 and 44..50, base y in 0..6, open at the top.
UShape == Pts(<< <<30, 0>>, <<50, 0>>, <<50, 20>>, <<44, 20>>,
                 <<44, 6>>, <<36, 6>>, <<36, 20>>, <<30, 20>> >>)
\* A bar from arm to arm across the notch of the U.
Bar == Pts(<< <<32, 10>>, <<48, 10>>, <<48, 14>>, <<32, 14>> >>)
\* A square half in the left arm of the U, half in its notch.
Straddle == Pts(<< <<34, 16>>, <<40, 16>>, <<40, 18>>, <<34, 18>> >>)
\* A square away from the U.
Apart == Pts(<< <<60, 0>>, <<64, 0>>, <<64, 4>>, <<60, 4>> >>)
Twin == Pts(<< <<0, 30>>, <<8, 30>>, <<8, 38>>, <<0, 38>> >>)
Tri == Pts(<< <<70, 0>>, <<78, 0>>, <<74, 6>> >>)
\* 'M a L b L c L a L a': the first point repeated twice at the end.
TwiceClosed == Pts(<< <<80, 0>>, <<88, 0>>, <<84, 6>>, <<80, 0>>, <<80, 0>> >>)
\* 'M p0 C p1 p2 p3 L p0': one curved segment and the straight way back.
Arch == Knots(<< << <<128, 128>>, <<128, 128>>, <<128, 256>> >>,
                 << <<256, 256>>, <<256, 128>>, <<256, 128>> >>,
                 << <<128, 128>>, <<128, 128>>, <<128, 128>> >> >>)

\* The curves of a circle of radius 4 about (60, 40), from (56, 40) round
\* to (56, 40), in four nodes and the closing one.
Ring == Knots(<< << <<56, 40>>, <<56, 40>>, <<56, 42>> >>,
                 << <<58, 44>>, <<60, 44>>, <<62, 44>> >>,
                 << <<64, 42>>, <<64, 40>>, <<64, 38>> >>,
                 << <<62, 36>>, <<60, 36>>, <<58, 36>> >>,
                 << <<56, 38>>, <<56, 40>>, <<56, 40>> >> >>)

NoShift == <<Whole(0), Whole(0)>>
\* The transform of the group around element "moved": translate(40, 0).
GroupShift == <<Whole(40), Whole(0)>>

\* The elements of the document.  anc is the composed transform of the
\* element's ancestors (a translation).  arcs is what inkex parses from the
\* two-arc path that process_ellipse builds for the element (its cubic
\* approximation of the arcs).
Elements == <<
    [tag |-> "path", id |-> <<"d","o","n","u","t">>, anc |-> NoShift,
     d |-> Data(<<Closed(SqOuter), Closed(SqInner), Closed(SqCore)>>)],
    [tag |-> "path", id |-> <<"u","_","b","a","r">>, anc |-> NoShift,
     d |-> Data(<<Closed(UShape), Closed(Bar), Closed(Straddle), Closed(Apart)>>)],
    [tag |-> "path", id |-> <<"t","w","i","n","s">>, anc |-> NoShift,
     d |-> Data(<<Closed(Twin), Closed(Twin)>>)],
    [tag |-> "rect", id |-> <<"a","-","b">>, anc |-> NoShift,
     x |-> Num(4), y |-> Num(4), width |-> Num(4), height |-> Num(4)],
    [tag |-> "rect", id |-> <<"a","b">>, anc |-> NoShift,
     x |-> Num(25), y |-> Num(0), width |-> Num(20), height |-> Num(3)],
    [tag |-> "rect", id |-> <<>>, anc |-> NoShift,
     x |-> Missing, y |-> Num(24), width |-> Num(2), height |-> Num(2)],
    [tag |-> "polygon", id |-> <<>>, anc |-> NoShift,
     points |-> Pts(<< <<24, 24>>, <<28, 24>>, <<26, 28>> >>)],
    [tag |-> "path", id |-> <<"0","x">>, anc |-> NoShift,
     d |-> Data(<<Closed(Tri)>>)],
    [tag |-> "line", id |-> <<"l","n">>, anc |-> NoShift,
     x1 |-> Num(0), y1 |-> Num(0), x2 |-> Num(90), y2 |-> Num(90)],
    [tag |-> "ellipse", id |-> <<"e","0">>, anc |-> NoShift,
     rx |-> Num(0), ry |-> Num(4), cx |-> Num(90), cy |-> Num(90), arcs |-> NoData],
    [tag |-> "rect", id |-> <<"b","a","d">>, anc |-> NoShift,
     x |-> Unparsable, y |-> Num(0), width |-> Num(4), height |-> Num(4)],
    [tag |-> "rect", id |-> <<"f","l","a","t">>, anc |-> NoShift,
     x |-> Num(96), y |-> Num(96), width |-> Missing, height |-> Missing],
    [tag |-> "path", id |-> <<"g","a","r","b","l","e","d">>, anc |-> NoShift,
     d |-> BadData],
    [tag |-> "path", id |-> <<"e","m","p","t","y">>, anc |-> NoShift,
     d |-> NoData],
    [tag |-> "path", id |-> <<"d","u","p">>, anc |-> NoShift,
     d |-> Data(<<Line(TwiceClosed)>>)],
    [tag |-> "polyline", id |-> <<"p","l">>, anc |-> NoShift,
     points |-> Pts(<< <<40, 30>>, <<44, 30>>, <<44, 34>> >>)],
    [tag |-> "path", id |-> <<"a","r","c","h">>, anc |-> NoShift,
     d |-> Data(<<Arch>>)],
    [tag |-> "rect", id |-> <<"m","o","v","e","d">>, anc |-> GroupShift,
     x |-> Num(0), y |-> Num(0), width |-> Num(4), height |-> Num(4)],
    [tag |-> "circle", id |-> <<"d","o","t">>, anc |-> NoShift,
     r |-> Missing, cx |-> Unparsable, cy |-> Num(0), arcs |-> NoData],
    [tag |-> "text", id |-> <<"t","x","t">>, anc |-> NoShift],
    [tag |-> "circle", id |-> <<"r","i","n","g">>, anc |-> NoShift,
     r |-> Num(4), cx |-> Num(60), cy |-> Num(40), arcs |-> Data(<<Ring>>)]
>>

Nodes == 1..Len(Elements)

\* options.height and options.smoothness.
Heights == {"3"}
Tolerances == {Whole(12), Whole(40), <<5, 2>>}
\* The tolerance of the runs of effect().
Smoothness == {Whole(12)}

(***************************************************************************)
(* Shape extraction: process_rect, process_line, process_poly,             *)
(* process_ellipse and process_element's dispatch.  Each yields what the   *)
(* handler does: raise (float() failed), skip (an early return) or call    *)
(* get_path_vertices with the path data d.                                 *)
(***************************************************************************)
Raise == [do |-> "raise", d |-> NoData]
Skip == [do |-> "skip", d |-> NoData]
Call(d) == [do |-> "call", d |-> d]

Float(a) == a.v
FloatRaises(a) == a.k = "bad"

\* d = f'M {x},{y} l {w},0 l 0,{h} l {-w},0 Z'
process_rect(el) ==
    IF \E a \in {el.x, el.y, el.width, el.height} : FloatRaises(a) THEN Raise
    ELSE LET x == Float(el.x)
             y == Float(el.y)
             w == Float(el.width)
             h == Float(el.height)
             x1 == Plus[x, w]
             y1 == Plus[y, h]
         IN  Call(Data(<< Closed(<< <<x, y>>, <<x1, y>>, <<x1, y1>>,
                                    <<Minus[x1, w], y1>> >>) >>))

\* d = f'M {x1},{y1} L {x2},{y2}'
process_line(el) ==
    IF \E a \in {el.x1, el.y1, el.x2, el.y2} : FloatRaises(a) THEN Raise
    ELSE Call(Data(<< Line(<< <<Float(el.x1), Float(el.y1)>>,
                              <<Float(el.x2), Float(el.y2)>> >>) >>))

\* 'M ' + ' L '.join(coords) (+ ' Z' for a polygon)
process_poly(el) ==
    IF el.points = <<>> THEN Skip
    ELSE IF el.tag = "polygon" THEN Call(Data(<<Closed(el.points)>>))
    ELSE Call(Data(<<Line(el.points)>>))

\* d = f'M {x1},{cy} A {rx},{ry} 0 1 0 {x2},{cy} A {rx},{ry} 0 1 0 {x1},{cy}',
\* given as inkex parses it.
process_ellipse(el) ==
    LET radii == IF el.tag = "ellipse" THEN <<el.rx, el.ry>> ELSE <<el.r, el.r>>
    IN  IF FloatRaises(radii[1]) \/ FloatRaises(radii[2]) THEN Raise
        ELSE IF Float(radii[1]) = Whole(0) \/ Float(radii[2]) = Whole(0) THEN Skip
        ELSE IF FloatRaises(el.cx) \/ FloatRaises(el.cy) THEN Raise
        ELSE Call(el.arcs)

\* process_element on a shape (an element of another tag has no shape
\* children here: nothing is done).
process_element(el) ==
    CASE el.tag = "path" -> Call(el.d)
      [] el.tag = "rect" -> process_rect(el)
      [] el.tag = "line" -> process_line(el)
      [] el.tag \in {"polyline", "polygon"} -> process_poly(el)
      [] el.tag \in {"ellipse", "circle"} -> process_ellipse(el)
      [] OTHER -> Skip

(***************************************************************************)
(* get_path_vertices.                                                      *)
(***************************************************************************)
\* path.transform(transform), for a translation.
Shifted(p, off) == <<Plus[p[1], off[1]], Plus[p[2], off[2]]>>
Transformed(superpath, off) ==
    [a \in 1..Len(superpath) |->
        [m \in 1..Len(superpath[a]) |->
            <<Shifted(superpath[a][m][1], off), Shifted(superpath[a][m][2], off),
              Shifted(superpath[a][m][3], off)>>]]

\* Lines 217-220: n, the number of nodes read, one less when the last
\* point is identical to the first.
KeptNodes(s) ==
    IF s[1][2] = s[Len(s)][2] THEN Len(s) - 1 ELSE Len(s)

\* Lines 208-227: first_point, then sp[i][1] for i in range(1, n).
Vertices(s) ==
    <<s[1][2]>> \o [m \in 1..(KeptNodes(s) - 1) |-> s[m + 1][2]]

\* Lines 213-214, 229-232: the subpath's bounding box.
RECURSIVE BBoxFrom(_, _, _)
BBoxFrom(v, m, box) ==
    IF m > Len(v) THEN box
    ELSE BBoxFrom(v, m + 1, << Min(box[1], v[m][1]), Max(box[2], v[m][1]),
                               Min(box[3], v[m][2]), Max(box[4], v[m][2]) >>)

BBoxOf(v) == BBoxFrom(v, 2, <<v[1][1], v[1][1], v[1][2], v[1][2]>>)

\* Line 234: a polygon needs at least 3 points.
Accepted(v) == Len(v) >= 3

\* Lines 234-242: the subpath of vertices v goes in front of the list
\* unless it has fewer than 3 points.
Listed(v, rest) ==
    IF Accepted(v) THEN <<[v |-> v, bbox |-> BBoxOf(v)]>> \o rest ELSE rest

\* Lines 199-242: subpath_list, from subpath a of the superpath on.
RECURSIVE SubpathList(_, _, _)
SubpathList(superpath, a, tol) ==
    IF a > Len(superpath) THEN <<>>
    ELSE IF superpath[a] = <<>> THEN SubpathList(superpath, a + 1, tol)
    ELSE Listed(Vertices(Subdivided(superpath[a], tol)),
                SubpathList(superpath, a + 1, tol))

\* Lines 237-240: the global bounding box after the subpaths of subs.
RECURSIVE Grown(_, _, _)
Grown(box, subs, a) ==
    IF a > Len(subs) THEN box
    ELSE Grown(<< Min(box[1], subs[a].bbox[1]), Max(box[2], subs[a].bbox[2]),
                  Min(box[3], subs[a].bbox[3]), Max(box[4], subs[a].bbox[4]) >>,
               subs, a + 1)

\* What get_path_vertices(path_d, node, transform) stores for the node.
get_path_vertices(d, off, tol) ==
    IF d.k # "ok" THEN <<>>
    ELSE SubpathList(Transformed(d.subs, off), 1, tol)

\* self.paths[node] = subpath_list: a dict keeps the position of a key it
\* already holds.
DictIndex(ps, node) ==
    IF \E m \in 1..Len(ps) : ps[m].node = node
    THEN CHOOSE m \in 1..Len(ps) : ps[m].node = node
    ELSE 0

DictSet(ps, node, subs) ==
    IF DictIndex(ps, node) = 0 THEN Append(ps, [node |-> node, subs |-> subs])
    ELSE [ps EXCEPT ![DictIndex(ps, node)] = [node |-> node, subs |-> subs]]

(***************************************************************************)
(* convert_path: containment analysis, naming, emission.                   *)
(***************************************************************************)
\* A variant of GroupSubpaths: the subpaths of every group, those of the
\* group at position m first.
EverySubpath(ps, m) ==
    LET RECURSIVE Others(_)
        Others(q) ==
            IF q > Len(ps) THEN <<>>
            ELSE (IF q = m THEN <<>> ELSE ps[q].subs) \o Others(q + 1)
    IN  ps[m].subs \o Others(1)

\* Line 250: path = self.paths[node], for the key at position m.
GroupSubpaths(ps, m) == ps[m].subs

AppendAt(lists, m, x) == [lists EXCEPT ![m] = Append(@, x)]

\* A variant of RecordPair: the second direction is tested even when the
\* first was recorded ("if" for "elif").
RecordPairBothWays(path, a, b, g) ==
    LET first == IF poly_in_poly(path[b].v, path[b].bbox, path[a].v, path[a].bbox)
                 THEN [contains |-> AppendAt(g.contains, a, b),
                       contained_by |-> AppendAt(g.contained_by, b, a)]
                 ELSE g
    IN  IF poly_in_poly(path[a].v, path[a].bbox, path[b].v, path[b].bbox)
        THEN [contains |-> AppendAt(first.contains, b, a),
              contained_by |-> AppendAt(first.contained_by, a, b)]
        ELSE first

\* Lines 260-265: the body of the pair loop for a < b.
RecordPair(path, a, b, g) ==
    IF poly_in_poly(path[b].v, path[b].bbox, path[a].v, path[a].bbox)
    THEN [contains |-> AppendAt(g.contains, a, b),
          contained_by |-> AppendAt(g.contained_by, b, a)]
    ELSE IF poly_in_poly(path[a].v, path[a].bbox, path[b].v, path[b].bbox)
    THEN [contains |-> AppendAt(g.contains, b, a),
          contained_by |-> AppendAt(g.contained_by, a, b)]
    ELSE g

\* Lines 258-265: for i in range(len(path)): for j in range(i + 1, len(path)).
RECURSIVE PairLoop(_, _, _, _)
PairLoop(path, a, b, g) ==
    IF a > Len(path) THEN g
    ELSE IF b > Len(path) THEN PairLoop(path, a + 1, a + 2, g)
    ELSE PairLoop(path, a, b + 1, RecordPair(path, a, b, g))

\* Lines 255-265.
Classify(path) ==
    PairLoop(path, 1, 2, [contains |-> [m \in 1..Len(path) |-> <<>>],
                          contained_by |-> [m \in 1..Len(path) |-> <<>>]])

\* The characters that re.sub('[^A-Za-z0-9_]+', '', node_id) keeps.
IdChars ==
    {"a","b","c","d","e","f","g","h","i","j","k","l","m","n","o","p","q","r","s",
     "t","u","v","w","x","y","z","A","B","C","D","E","F","G","H","I","J","K","L",
     "M","N","O","P","Q","R","S","T","U","V","W","X","Y","Z","0","1","2","3","4",
     "5","6","7","8","9","_"}

RECURSIVE Stripped(_)
Stripped(id) ==
    IF id = <<>> THEN <<>>
    ELSE IF id[1] \in IdChars THEN <<id[1]>> \o Stripped(Tail(id))
    ELSE Stripped(Tail(id))

Digit(n) == <<"0","1","2","3","4","5","6","7","8","9">>[n + 1]

\* str(n) of the f-string f"{self.pathid}x".
RECURSIVE Decimal(_)
Decimal(n) ==
    IF n < 10 THEN <<Digit(n)>> ELSE Decimal(n \div 10) \o <<Digit(n % 10)>>

\* Lines 268-273: node_id.
NodeId(id, counter) ==
    IF id = <<>> THEN Decimal(counter) \o <<"x">> ELSE Stripped(id)

\* Line 275: the module's name, poly_{node_id}.
ModuleName(id, counter) == <<"p","o","l","y","_">> \o NodeId(id, counter)

\* A statement written to the file.  idx is the position in the group of
\* the subpath a polygon was built from.
Stmt(t) == [t |-> t, name |-> <<>>, idx |-> 0, pts |-> <<>>, holes |-> <<>>, h |-> ""]

\* [f'[{p[0]-self.cx},{p[1]-self.cy}]' for p in vertices]
Points(v, ox, oy) == [m \in 1..Len(v) |-> <<Minus[v[m][1], ox], Minus[v[m][2], oy]>>]

write_polygon(path, a, ox, oy) ==
    [Stmt("polygon") EXCEPT !.idx = a, !.pts = Points(path[a].v, ox, oy)]

write_difference_polygon(path, a, holes, ox, oy) ==
    [Stmt("difference") EXCEPT
        !.idx = a, !.pts = Points(path[a].v, ox, oy),
        !.holes = [m \in 1..Len(holes) |->
                      [idx |-> holes[m], pts |-> Points(path[holes[m]].v, ox, oy)]]]

\* A variant of IsHole: a contained subpath that itself contains one is
\* taken for an outer polygon.
IsHoleIfLeaf(g, a) == g.contained_by[a] # <<>> /\ g.contains[a] = <<>>

\* Lines 280-281: a subpath that something contains is not written.
IsHole(g, a) == g.contained_by[a] # <<>>

\* Lines 279-288: the statements for subpaths a.. of the group.
RECURSIVE Body(_, _, _, _, _)
Body(path, g, a, ox, oy) ==
    IF a > Len(path) THEN <<>>
    ELSE IF IsHole(g, a) THEN Body(path, g, a + 1, ox, oy)
    ELSE IF g.contains[a] = <<>>
    THEN <<write_polygon(path, a, ox, oy)>> \o Body(path, g, a + 1, ox, oy)
    ELSE <<write_difference_polygon(path, a, g.contains[a], ox, oy)>>
         \o Body(path, g, a + 1, ox, oy)

(***************************************************************************)
(* handle_viewbox.  The root element's width, height and viewBox; a        *)
(* viewBox is the list of its items, each a number's text or not.          *)
(***************************************************************************)
Documents == {
    [width |-> Missing, height |-> Missing, viewBox |-> <<>>],
    [width |-> Num(100), height |-> Num(50),
     viewBox |-> <<Num(0), Num(0), Num(200), Num(100)>>],
    [width |-> Num(100), height |-> Unparsable,
     viewBox |-> <<Num(0), Num(0), Unparsable, Num(100)>>],
    [width |-> Num(100), height |-> Num(100), viewBox |-> <<Num(0), Num(0), Num(100)>>],
    [width |-> Num(100), height |-> Num(100),
     viewBox |-> <<Unparsable, Num(0), Num(0), Unparsable>>],
    [width |-> Num(100), height |-> Num(100),
     viewBox |-> <<Num(0), Num(0), Num(100), Unparsable>>],
    [width |-> Missing, height |-> Missing,
     viewBox |-> <<Num(0), Num(0), Unparsable, Num(100)>>] }

\* Lines 76-84: the default for an absent length, None for one that
\* unittouu rejects.
None == <<>>
get_length_in_pixels(a, default) ==
    IF a.k = "missing" THEN Whole(default)
    ELSE IF a.k = "bad" THEN None
    ELSE a.v

\* Lines 86-91.
get_doc_props(doc) ==
    /\ get_length_in_pixels(doc.height, 100) # None
    /\ get_length_in_pixels(doc.width, 100) # None

\* Lines 93-102: TRUE when a float() of the condition of line 99 raises.
\* The "and" stops at the first item that is 0.
ViewboxRaises(doc) ==
    /\ get_doc_props(doc)
    /\ Len(doc.viewBox) = 4
    /\ \/ FloatRaises(doc.viewBox[3])
       \/ Float(doc.viewBox[3]) # Whole(0) /\ FloatRaises(doc.viewBox[4])

(***************************************************************************)
(* effect().                                                               *)
(***************************************************************************)
Init ==
    /\ mode \in {"document", "ids"}
    /\ height \in Heights
    /\ flat \in Smoothness
    /\ pc = "viewbox"
    /\ visits = <<>>
    /\ paths = <<>>
    /\ xmin = Whole(Huge) /\ xmax = Whole(-Huge)
    /\ ymin = Whole(Huge) /\ ymax = Whole(-Huge)
    /\ cx = Whole(DefaultCenter) /\ cy = Whole(DefaultCenter)
    /\ pathid = 0
    /\ call_list = <<>>
    /\ out = <<>>
    /\ emit_idx = 1
    /\ contains = <<>>
    /\ contained_by = <<>>
    /\ sp = <<>> /\ si = 0 /\ fpc = "idle"

\* Line 320: handle_viewbox() on the document.  It writes doc_width,
\* doc_height and doc_transform, which nothing reads afterwards; a viewBox
\* item that is no number ends effect() with a ValueError.
HandleViewbox(doc) ==
    /\ pc = "viewbox"
    /\ pc' = IF ViewboxRaises(doc) THEN "raised" ELSE "extract"
    /\ UNCHANGED <<mode, height, flat, visits, paths, xmin, xmax, ymin, ymax, cx, cy,
                   pathid, call_list, out, emit_idx, contains, contained_by, sp, si, fpc>>

Visited(n) == \E m \in 1..Len(visits) : visits[m].node = n

\* The transforms process_element can be called with on element n: the
\* identity on a walk of the whole document and on the walk of a selected
\* group around n (the group's own transform is not composed on the way
\* down); the composed ancestor transforms when n itself is selected.
Offsets(n) ==
    IF mode = "document" THEN {NoShift} ELSE {NoShift, Elements[n].anc}

\* The walk of a document comes to its elements in document order, here
\* that of Elements, whichever of them the document holds; the selected
\* ids come in any order.
Reachable(n) ==
    IF mode = "document" /\ visits # <<>> THEN Last(visits).node < n ELSE TRUE

\* Lines 237-245: the global bounding box becomes box, and a list of
\* subpaths that is not empty is stored under the node.
Store(n, subs, box) ==
    /\ paths' = IF subs # <<>> THEN DictSet(paths, n, subs) ELSE paths
    /\ xmin' = box[1] /\ xmax' = box[2]
    /\ ymin' = box[3] /\ ymax' = box[4]

\* What get_path_vertices leaves in the extractor for the subpaths subs.
Extract(n, subs) == Store(n, subs, Grown(<<xmin, xmax, ymin, ymax>>, subs, 1))

\* One call process_element(shape n, transform): lines 371-387 with the
\* handler it dispatches to and get_path_vertices.
ProcessElement(n, off) ==
    /\ pc = "extract"
    /\ Len(visits) < MaxVisits
    /\ Reachable(n)
    /\ visits' = Append(visits, [node |-> n, off |-> off])
    /\ LET r == process_element(Elements[n])
       IN  IF r.do = "raise"
           THEN /\ pc' = "raised"
                /\ UNCHANGED <<paths, xmin, xmax, ymin, ymax>>
           ELSE IF r.do = "call"
           THEN /\ pc' = pc
                /\ Extract(n, get_path_vertices(r.d, off, flat))
           ELSE /\ pc' = pc
                /\ UNCHANGED <<paths, xmin, xmax, ymin, ymax>>
    /\ UNCHANGED <<mode, height, flat, cx, cy, pathid, call_list, out, emit_idx,
                   contains, contained_by, sp, si, fpc>>

\* Lines 338-340: the traversal is over; the center of the drawing.
Center(lo, hi) == Plus[lo, Half[Minus[hi, lo]]]

Finalize ==
    /\ pc = "extract"
    /\ cx' = Center(xmin, xmax)
    /\ cy' = Center(ymin, ymax)
    /\ pc' = "open"
    /\ UNCHANGED <<mode, height, flat, visits, paths, xmin, xmax, ymin, ymax, pathid,
                   call_list, out, emit_idx, contains, contained_by, sp, si, fpc>>

\* Lines 343-356: the file is opened and the header written.
WriteHeader ==
    /\ pc = "open"
    /\ out' = <<Stmt("header")>>
    /\ pc' = IF paths # <<>> THEN "convert" ELSE "nopaths"
    /\ UNCHANGED <<mode, height, flat, visits, paths, xmin, xmax, ymin, ymax, cx, cy,
                   pathid, call_list, emit_idx, contains, contained_by, sp, si, fpc>>

\* Lines 343-354, 368-370: the directory or the file cannot be made, or the
\* header cannot be written; the error is reported and raised again.
OpenFails ==
    /\ pc = "open"
    /\ pc' = "io_error"
    /\ UNCHANGED <<mode, height, flat, visits, paths, xmin, xmax, ymin, ymax, cx, cy,
                   pathid, call_list, out, emit_idx, contains, contained_by, sp, si, fpc>>

\* Lines 275-290: the statements convert_path writes for a group.
UnitStmts(path, g, name, ox, oy) ==
    <<[Stmt("module") EXCEPT !.name = name]>> \o Body(path, g, 1, ox, oy)
        \o <<Stmt("endmodule")>>

\* Line 360 and lines 248-290: convert_path(key) for the next key.
ConvertPath ==
    /\ pc = "convert"
    /\ emit_idx <= Len(paths)
    /\ LET path == GroupSubpaths(paths, emit_idx)
           g == Classify(path)
           id == Elements[paths[emit_idx].node].id
           name == ModuleName(id, pathid)
       IN  /\ contains' = g.contains
           /\ contained_by' = g.contained_by
           /\ pathid' = IF id = <<>> THEN pathid + 1 ELSE pathid
           /\ out' = out \o UnitStmts(path, g, name, cx, cy)
           /\ call_list' = Append(call_list, [name |-> name, h |-> height])
    /\ emit_idx' = emit_idx + 1
    /\ UNCHANGED <<mode, height, flat, pc, visits, paths, xmin, xmax, ymin, ymax,
                   cx, cy, sp, si, fpc>>

\* Lines 359-360, 368-370: a write of the next group fails.  written = -1:
\* the write of line 359, before convert_path; written = 0: the module's
\* head (lines 275-276), after node_id was made and before the call is
\* listed; written >= 1: a later write, the module's head and written - 1
\* statements of its body being out.  A statement counts as written when
\* all of it is.  contains and contained_by, locals of the call that
\* failed, keep the values of the last call that returned.
ConvertPathFails ==
    /\ pc = "convert"
    /\ emit_idx <= Len(paths)
    /\ LET path == GroupSubpaths(paths, emit_idx)
           g == Classify(path)
           id == Elements[paths[emit_idx].node].id
           name == ModuleName(id, pathid)
           unit == UnitStmts(path, g, name, cx, cy)
       IN  \E written \in -1..(Len(unit) - 1) :
           /\ pathid' = IF id = <<>> /\ written >= 0 THEN pathid + 1 ELSE pathid
           /\ out' = IF written >= 1 THEN out \o SubSeq(unit, 1, written) ELSE out
           /\ call_list' = IF written >= 1
                           THEN Append(call_list, [name |-> name, h |-> height])
                           ELSE call_list
    /\ pc' = "io_error"
    /\ UNCHANGED <<mode, height, flat, visits, paths, xmin, xmax, ymin, ymax,
                   cx, cy, emit_idx, contains, contained_by, sp, si, fpc>>

\* A variant of Calls: the default height for the configured one.
CallsDefaultHeight(list) ==
    [m \in 1..Len(list) |-> [t |-> "call", name |-> list[m].name, idx |-> 0,
                             pts |-> <<>>, holes |-> <<>>, h |-> "5"]]

\* Lines 361-363: the invocations.
Calls(list) ==
    [m \in 1..Len(list) |-> [Stmt("call") EXCEPT !.name = list[m].name, !.h = list[m].h]]

WriteCalls ==
    /\ pc = "convert"
    /\ emit_idx > Len(paths)
    /\ out' = out \o Calls(call_list)
    /\ pc' = "done"
    /\ UNCHANGED <<mode, height, flat, visits, paths, xmin, xmax, ymin, ymax, cx, cy,
                   pathid, call_list, emit_idx, contains, contained_by, sp, si, fpc>>

\* Lines 361-363, 368-370: a write fails after the first written calls
\* (that of line 361 with none), or the file cannot be closed after all.
WriteCallsFails ==
    /\ pc = "convert"
    /\ emit_idx > Len(paths)
    /\ \E written \in 0..Len(call_list) :
           out' = out \o SubSeq(Calls(call_list), 1, written)
    /\ pc' = "io_error"
    /\ UNCHANGED <<mode, height, flat, visits, paths, xmin, xmax, ymin, ymax, cx, cy,
                   pathid, call_list, emit_idx, contains, contained_by, sp, si, fpc>>

\* Lines 364-366.
WriteNoPaths ==
    /\ pc = "nopaths"
    /\ out' = Append(out, Stmt("nopaths"))
    /\ pc' = "done"
    /\ UNCHANGED <<mode, height, flat, visits, paths, xmin, xmax, ymin, ymax, cx, cy,
                   pathid, call_list, emit_idx, contains, contained_by, sp, si, fpc>>

\* Lines 364-370: the comment cannot be written (written = 0), or the file
\* cannot be closed after it (written = 1).
WriteNoPathsFails ==
    /\ pc = "nopaths"
    /\ \E written \in 0..1 :
           out' = IF written = 1 THEN Append(out, Stmt("nopaths")) ELSE out
    /\ pc' = "io_error"
    /\ UNCHANGED <<mode, height, flat, visits, paths, xmin, xmax, ymin, ymax, cx, cy,
                   pathid, call_list, emit_idx, contains, contained_by, sp, si, fpc>>

Next ==
    \/ \E doc \in Documents : HandleViewbox(doc)
    \/ \E n \in Nodes : \E off \in Offsets(n) : ProcessElement(n, off)
    \/ Finalize
    \/ WriteHeader
    \/ OpenFails
    \/ ConvertPath
    \/ ConvertPathFails
    \/ WriteCalls
    \/ WriteCallsFails
    \/ WriteNoPaths
    \/ WriteNoPathsFails

Spec == Init /\ [][Next]_vars

(***************************************************************************)
(* subdivide_cubic_path(sp, flat), step by step.                           *)
(***************************************************************************)
\* Cubic segments as <<p1 - p0, p2 - p0, p3 - p0>>.
SegmentShapes == { Pts(c) : c \in {
    << <<0, 128>>, <<128, 128>>, <<128, 0>> >>,     \* an arch
    << <<0, 0>>, <<128, 0>>, <<128, 0>> >>,         \* a straight line
    << <<128, 0>>, <<0, 128>>, <<128, 128>> >>,     \* an S
    << <<128, 0>>, <<0, 128>>, <<0, 0>> >>,         \* a closed loop
    << <<-128, 0>>, <<256, 0>>, <<128, 0>> >>,      \* collinear, overshooting
    << <<128, 128>>, <<0, 128>>, <<128, 0>> >>,     \* crossed handles
    << <<0, 0>>, <<128, 128>>, <<128, 0>> >>,       \* one handle collapsed
    << <<0, 128>>, <<0, 128>>, <<128, 0>> >>,
    << <<128, 128>>, <<128, 128>>, <<0, 0>> >>,
    << <<0, 55>>, <<45, 100>>, <<100, 100>> >>,     \* a quarter circle
    << <<7, 90>>, <<61, -33>>, <<75, 13>> >> } }

\* The superpath of the segments of shapes, chained from start.
RECURSIVE Chained(_, _, _)
Chained(shapes, start, handle_in) ==
    IF shapes = <<>> THEN << <<handle_in, start, start>> >>
    ELSE LET c == shapes[1]
         IN  << <<handle_in, start, Shifted(c[1], start)>> >>
             \o Chained(Tail(shapes), Shifted(c[3], start), Shifted(c[2], start))

RECURSIVE ShapeSeqs(_)
ShapeSeqs(n) ==
    IF n = 0 THEN {<<>>}
    ELSE ShapeSeqs(n - 1)
         \cup {Append(q, c) : q \in {r \in ShapeSeqs(n - 1) : Len(r) = n - 1},
                              c \in SegmentShapes}

FlatInputs == {Chained(q, NoShift, NoShift) : q \in ShapeSeqs(MaxSegs) \ {<<>>}}

InitFlat ==
    /\ mode = "document"
    /\ height \in Heights
    /\ flat \in Tolerances
    /\ pc = "viewbox"
    /\ visits = <<>>
    /\ paths = <<>>
    /\ xmin = Whole(Huge) /\ xmax = Whole(-Huge)
    /\ ymin = Whole(Huge) /\ ymax = Whole(-Huge)
    /\ cx = Whole(DefaultCenter) /\ cy = Whole(DefaultCenter)
    /\ pathid = 0
    /\ call_list = <<>>
    /\ out = <<>>
    /\ emit_idx = 1
    /\ contains = <<>>
    /\ contained_by = <<>>
    /\ sp \in FlatInputs
    /\ si = 2
    /\ fpc = "split"

\* Lines 154-168: the segment at i is too far from flat: it is split and
\* i stays.
SplitStep ==
    /\ fpc = "split"
    /\ si <= Len(sp)
    /\ SplitNeeded(sp, si, flat)
    /\ sp' = SplitAt(sp, si)
    /\ UNCHANGED <<si, fpc, flat, mainVars>>

\* Lines 169-170: i += 1.
AdvanceStep ==
    /\ fpc = "split"
    /\ si <= Len(sp)
    /\ ~SplitNeeded(sp, si, flat)
    /\ si' = si + 1
    /\ UNCHANGED <<sp, fpc, flat, mainVars>>

\* Lines 172-184: the splitting loop is over; the whole sequence is scanned
\* again and the splitting loop restarted if a segment still needs it.
Rescan ==
    /\ fpc = "split"
    /\ si > Len(sp)
    /\ IF NeedsSubdivision(sp, flat)
       THEN si' = 2 /\ fpc' = "split"
       ELSE si' = si /\ fpc' = "done"
    /\ UNCHANGED <<sp, flat, mainVars>>

NextFlat ==
    \/ SplitStep
    \/ AdvanceStep
    \/ Rescan

\* The loops run on their own: a step that can be taken is taken.
SpecFlat == InitFlat /\ [][NextFlat]_vars /\ WF_vars(NextFlat)

(***************************************************************************)
(* Reading the state: the units of the written file, the latest group.     *)
(***************************************************************************)
RECURSIVE PosFrom(_, _)
PosFrom(t, m) ==
    IF m > Len(out) THEN <<>>
    ELSE (IF out[m].t = t THEN <<m>> ELSE <<>>) \o PosFrom(t, m + 1)

\* The positions in out of the statements of kind t, ascending.
Pos(t) == PosFrom(t, 1)

\* The number of units written so far.
UnitCount == Len(Pos("endmodule"))

\* The statements between the u-th "module" and its "endmodule".
UnitOf(u) == SubSeq(out, Pos("module")[u] + 1, Pos("endmodule")[u] - 1)

\* convert_path has run at least once: contains and contained_by are those
\* of group Latest.
Classified == UnitCount >= 1
Latest == UnitCount
LatestPath == paths[Latest].subs

InList(x, list) == \E m \in 1..Len(list) : list[m] = x

\* --------------------------------------------------------------------- C1
\* The statements of unit u written for subpath a as a simple or outer polygon.
WrittenFor(u, a) == {m \in 1..Len(UnitOf(u)) : UnitOf(u)[m].idx = a}

HoleIdx(st) == [m \in 1..Len(st.holes) |-> st.holes[m].idx]

\* C1: for every subpath a of the group convert_path has just written, one
\* of three cases holds: contained_by[a] is nonempty and a is written
\* neither as a simple nor as an outer polygon; contained_by[a] is empty,
\* contains[a] is not, and a is written exactly once, as the outer polygon
\* of a difference whose holes are contains[a]; both are empty and a is
\* written exactly once, as a simple polygon.
C1_EmissionFollowsGraph ==
    Classified =>
        \A a \in 1..Len(LatestPath) :
            LET w == WrittenFor(Latest, a)
            IN  IF contained_by[a] # <<>> THEN w = {}
                ELSE /\ Cardinality(w) = 1
                     /\ \A m \in w :
                          IF contains[a] # <<>>
                          THEN /\ UnitOf(Latest)[m].t = "difference"
                               /\ HoleIdx(UnitOf(Latest)[m]) = contains[a]
                          ELSE /\ UnitOf(Latest)[m].t = "polygon"
                               /\ UnitOf(Latest)[m].holes = <<>>

\* A group has been written in which a hole itself contains a subpath.
C1_Witness ==
    /\ Classified
    /\ \E a \in 1..Len(LatestPath) : contained_by[a] # <<>> /\ contains[a] # <<>>
    /\ \E m \in 1..Len(UnitOf(Latest)) : UnitOf(Latest)[m].t = "difference"

\* --------------------------------------------------------------------- C2
\* The closed area of a polygon of whole coordinates, cell by cell: the
\* unit cell with lower corner <<x, y>> is inside when its center is, which
\* the crossing count decides (no vertex lies at a center's y).
CellInside(x, y, poly) == RayCast(<<Half[Whole(2 * x + 1)], Half[Whole(2 * y + 1)]>>, poly)

Floor(a) == a[1] \div a[2]

\* Every cell of polygon sub.v lies in polygon sup.v.
AreaNested(sub, sup) ==
    \A x \in Floor(sub.bbox[1])..Floor(sub.bbox[2]) :
    \A y \in Floor(sub.bbox[3])..Floor(sub.bbox[4]) :
        CellInside(x, y, sub.v) => CellInside(x, y, sup.v)

\* C2: in the group just classified, b is recorded as contained by a only
\* if every vertex of b is inside a by the even-odd ray casting test, and
\* two polygons neither of which lies within the other (disjoint, or
\* partially overlapping) are not recorded in either direction.
C2_ContainmentIsNesting ==
    Classified =>
        \A a, b \in 1..Len(LatestPath) :
            InList(b, contains[a]) =>
                /\ \A m \in 1..Len(LatestPath[b].v) :
                       RayCast(LatestPath[b].v[m], LatestPath[a].v)
                /\ AreaNested(LatestPath[b], LatestPath[a])

\* --------------------------------------------------------------------- C3
AllSubs(ps) ==
    LET RECURSIVE Cat(_)
        Cat(m) == IF m > Len(ps) THEN <<>> ELSE ps[m].subs \o Cat(m + 1)
    IN  Cat(1)

EmptyBox == <<Whole(Huge), Whole(-Huge), Whole(Huge), Whole(-Huge)>>

\* The union bounding box of the subpaths self.paths holds.
StoredBox == Grown(EmptyBox, AllSubs(paths), 1)

\* Every polygon statement of every unit carries the stored vertices of
\* the subpath it was built from, less (ox, oy).
WrittenLess(ox, oy) ==
    \A u \in 1..UnitCount : \A m \in 1..Len(UnitOf(u)) :
        LET st == UnitOf(u)[m]
        IN  /\ st.pts = Points(paths[u].subs[st.idx].v, ox, oy)
            /\ \A q \in 1..Len(st.holes) :
                   st.holes[q].pts = Points(paths[u].subs[st.holes[q].idx].v, ox, oy)

Extracting == pc \in {"viewbox", "extract", "raised"}

\* C3 as claimed: nothing is written during extraction and, once extraction
\* is over, the center is the midpoint of the union bounding box of the
\* stored subpaths and every written coordinate is the stored one less it.
C3_CenterOfStored ==
    /\ Extracting => out = <<>>
    /\ ~Extracting =>
          /\ Plus[cx, cx] = Plus[StoredBox[1], StoredBox[2]]
          /\ Plus[cy, cy] = Plus[StoredBox[3], StoredBox[4]]
          /\ WrittenLess(cx, cy)

\* --------------------------------------------------------------------- C4
\* C4: every polygon of a unit, outer, simple or hole, is a subpath of the
\* unit's own group, and the containment graph of the group just classified
\* relates positions of that group only.
C4_WithinGroupOnly ==
    /\ \A u \in 1..UnitCount : \A m \in 1..Len(UnitOf(u)) :
           LET st == UnitOf(u)[m]
               own == {Points(paths[u].subs[a].v, cx, cy) : a \in 1..Len(paths[u].subs)}
           IN  /\ st.pts \in own
               /\ \A q \in 1..Len(st.holes) : st.holes[q].pts \in own
    /\ Classified =>
           /\ Len(contains) = Len(LatestPath)
           /\ Len(contained_by) = Len(LatestPath)
           /\ \A a \in 1..Len(contains) : \A m \in 1..Len(contains[a]) :
                  contains[a][m] \in 1..Len(LatestPath)

\* Two groups have been written, a polygon of one lying within a polygon
\* of the other by the code's own test, and it is written as a simple polygon.
C4_Witness ==
    /\ pc = "done"
    /\ \E u, w \in 1..Len(paths) :
          /\ u # w
          /\ \E a \in 1..Len(paths[u].subs) : \E b \in 1..Len(paths[w].subs) :
                /\ poly_in_poly(paths[w].subs[b].v, paths[w].subs[b].bbox,
                                paths[u].subs[a].v, paths[u].subs[a].bbox)
                /\ \E m \in 1..Len(UnitOf(w)) :
                      UnitOf(w)[m].t = "polygon" /\ UnitOf(w)[m].idx = b

\* --------------------------------------------------------------------- C5
\* C5: when effect() is done, either no group was stored and the file is
\* the header and the comment, or it is the header, one unit per stored
\* group, then one invocation per unit, in the units' order, under the
\* unit's name and with the configured height.
C5_UnitsThenCalls ==
    pc = "done" =>
        IF paths = <<>> THEN out = <<Stmt("header"), Stmt("nopaths")>>
        ELSE /\ out[1].t = "header"
             /\ Pos("header") = <<1>>
             /\ Pos("nopaths") = <<>>
             /\ Len(Pos("module")) = Len(paths)
             /\ Len(Pos("endmodule")) = Len(paths)
             /\ Len(Pos("call")) = Len(paths)
             /\ \A u \in 1..Len(paths) :
                   /\ Pos("call")[u] = Len(out) - Len(paths) + u
                   /\ Pos("module")[u] < Pos("endmodule")[u]
                   /\ u > 1 => Pos("endmodule")[u - 1] < Pos("module")[u]
                   /\ out[Pos("call")[u]].name = out[Pos("module")[u]].name
                   /\ out[Pos("call")[u]].h = height

\* A run has ended with several groups written and a shape skipped.
C5_Witness ==
    /\ pc = "done"
    /\ Len(paths) >= 2
    /\ Len(visits) > Len(paths)

\* --------------------------------------------------------------------- C6
\* Malformed geometry: curve data that is absent or does not parse, a
\* required attribute (a rectangle's width or height, a radius, a point
\* list) that is absent, an attribute that does not parse as a number.
Malformed(el) ==
    CASE el.tag = "path" -> el.d.k # "ok"
      [] el.tag = "rect" ->
            \/ \E a \in {el.x, el.y, el.width, el.height} : a.k = "bad"
            \/ \E a \in {el.width, el.height} : a.k = "missing"
      [] el.tag = "line" -> \E a \in {el.x1, el.y1, el.x2, el.y2} : a.k = "bad"
      [] el.tag \in {"polyline", "polygon"} -> el.points = <<>>
      [] el.tag = "ellipse" ->
            \/ \E a \in {el.rx, el.ry, el.cx, el.cy} : a.k = "bad"
            \/ \E a \in {el.rx, el.ry} : a.k = "missing"
      [] el.tag = "circle" ->
            \/ \E a \in {el.r, el.cx, el.cy} : a.k = "bad"
            \/ el.r.k = "missing"
      [] OTHER -> FALSE

\* Degenerate geometry: a zero radius, a line (fewer than 3 vertices).
Degenerate(el) ==
    CASE el.tag = "ellipse" -> el.rx = Num(0) \/ el.ry = Num(0)
      [] el.tag = "circle" -> el.r = Num(0)
      [] el.tag = "line" -> TRUE
      [] OTHER -> FALSE

\* C6: a step that processes a shape of malformed or degenerate geometry
\* raises no error and leaves the stored groups and the global bounding
\* box as they were.
C6_SkipAndContinue ==
    [][(Len(visits') > Len(visits)
          /\ (Malformed(Elements[Last(visits').node])
                \/ Degenerate(Elements[Last(visits').node])))
       => (/\ pc' # "raised"
           /\ paths' = paths
           /\ <<xmin', xmax', ymin', ymax'>> = <<xmin, xmax, ymin, ymax>>)]_vars

\* --------------------------------------------------------------------- C8
AllStored == AllSubs(paths)

\* C8 as claimed: every stored polyline has at least 3 vertices and does
\* not end with a vertex equal to its first.
C8_NoClosingDuplicate ==
    \A m \in 1..Len(AllStored) :
        /\ Len(AllStored[m].v) >= 3
        /\ Last(AllStored[m].v) # AllStored[m].v[1]

\* --------------------------------------------------------------------- C9
\* C9: in the graph of the group just classified, b is in contains[a]
\* exactly when a is in contained_by[b], no position is related to itself
\* or twice to another, no two positions contain each other, and where the
\* test succeeds in both directions for a < b only "a contains b" is recorded.
C9_GraphConsistent ==
    Classified =>
        /\ \A a, b \in 1..Len(LatestPath) :
              /\ InList(b, contains[a]) <=> InList(a, contained_by[b])
              /\ ~(InList(b, contains[a]) /\ InList(a, contains[b]))
              /\ (a < b /\ poly_in_poly(LatestPath[b].v, LatestPath[b].bbox,
                                        LatestPath[a].v, LatestPath[a].bbox))
                    => (InList(b, contains[a]) /\ ~InList(a, contains[b]))
        /\ \A a \in 1..Len(LatestPath) :
              /\ ~InList(a, contains[a])
              /\ ~InList(a, contained_by[a])
              /\ \A m, q \in 1..Len(contains[a]) :
                    m # q => contains[a][m] # contains[a][q]
              /\ \A m, q \in 1..Len(contained_by[a]) :
                    m # q => contained_by[a][m] # contained_by[a][q]

\* A group was classified in which the test succeeds in both directions.
C9_Witness ==
    /\ Classified
    /\ \E a, b \in 1..Len(LatestPath) :
          /\ a < b
          /\ poly_in_poly(LatestPath[b].v, LatestPath[b].bbox,
                          LatestPath[a].v, LatestPath[a].bbox)
          /\ poly_in_poly(LatestPath[a].v, LatestPath[a].bbox,
                          LatestPath[b].v, LatestPath[b].bbox)
          /\ contains[a] = <<b>>

\* -------------------------------------------------------------------- C10
\* The elements of the catalog that carry an id carry pairwise distinct ids.
DistinctIds ==
    \A n, q \in Nodes :
        (n # q /\ Elements[n].id # <<>>) => Elements[n].id # Elements[q].id

\* C10: the units of one output carry pairwise distinct names.
C10_DistinctNames ==
    DistinctIds =>
        \A u, w \in 1..Len(Pos("module")) :
            u # w => out[Pos("module")[u]].name # out[Pos("module")[w]].name

\* --------------------------------------------------------------------- C7
NoSegmentExceeds ==
    \A n \in 2..Len(sp) : ~MaxDistExceeds(Segment(sp, n), flat)

\* maxdist(c) < maxdist(b): each handle of c is nearer to c's chord than
\* one of b's handles is to b's.
DeviatesLess(c, b) ==
    \A p \in {c[2], c[3]} : \E q \in {b[2], b[3]} :
        RatioLess[Dist2[c[1], c[4], p], Dist2[b[1], b[4], q]]

\* The segments the splitting loop has gone past (those before position
\* i) do not deviate by more than the tolerance: a split changes only the
\* segment at i.
ScannedFlat ==
    \A n \in 2..Len(sp) : n < si => ~MaxDistExceeds(Segment(sp, n), flat)

\* C7: subdivide_cubic_path returns; the segments gone past stay within
\* the tolerance, so that when it has returned, the whole sequence gone
\* past, no segment of the sequence deviates from its chord by more than
\* the tolerance; and each of the two segments a split makes deviates less
\* than the segment that was split.
C7_SubdivisionTerminatesFlat ==
    /\ <>(fpc = "done")
    /\ [](fpc = "split" => ScannedFlat)
    /\ [](fpc = "done" => si > Len(sp) /\ ScannedFlat /\ NoSegmentExceeds)
    /\ [][Len(sp') = Len(sp) + 1 =>
            /\ DeviatesLess(Segment(sp', si), Segment(sp, si))
            /\ DeviatesLess(Segment(sp', si + 1), Segment(sp, si))]_vars

\* A sequence has been subdivided to the end, with splits on the way.
C7_Witness ==
    /\ fpc = "done"
    /\ Len(sp) >= 5
    /\ NoSegmentExceeds

====
